---- MODULE Spec2Model ----
(***************************************************************************)
(* Model of the incremental Lisp front-end: the LispInterpreter session    *)
(* (src/src/syntax_parser.rs) with its content-addressed cache of          *)
(* ReadyVec units, the structural validator is_vect_ready, the rendering   *)
(* handed to the external S-expression reader and the Tree snapshot; the   *)
(* Lexer (src/src/lexer.rs); and the script of the example                 *)
(* (src/examples/tree_example_use.rs).                                     *)
(***************************************************************************)
EXTENDS Integers, Sequences, FiniteSets, TLC

\* ---------------------------------------------------------------- bounds
\* Largest line index passed to process_vector; lines are 0..MaxLine.
MaxLine == 2
\* Longest candidate list handed to should_rebuild.
MaxCand == 2
\* Longest token vector handed to the validator on its own.
MaxTokens == 4
\* Longest string given to the lexer, in characters.
MaxInput == 4

\* The session (LispInterpreter) and the value returned by the last call.
VARIABLES ready_code, current_ptr, total_lines, result
\* A Tree handed out earlier by get_tree and still held by the caller.
VARIABLES snapshot
\* The token vector under validation.
VARIABLES v_tokens
\* The local variables of a get_tree call that is under way.
VARIABLES frame
\* The index of the first line the caller has changed since the tree it
\* holds was built.
VARIABLES changed
\* The lines of the caller's program, as token vectors.
VARIABLES lisp_code
\* The string given to Lexer::new, the Lexer (remaining input, line, column)
\* and the vector tokenize_all fills.
VARIABLES source, lexer, token_vector

session == <<ready_code, current_ptr, total_lines>>
\* What the calls on the session leave alone.
aux == <<snapshot, v_tokens, frame, changed, lisp_code, source, lexer, token_vector>>
vars == <<ready_code, current_ptr, total_lines, result, snapshot, v_tokens, frame, changed, lisp_code, source,
          lexer, token_vector>>

\* ---------------------------------------------------------------- tokens
TokenType == {"LeftParen", "RightParen", "Symbol", "Number", "String", "Boolean"}

Token(tt, lx, ln, col) == [token_type |-> tt, lexeme |-> lx, line |-> ln, column |-> col]

\* The tokens the modelled callers build their vectors from.
LP == Token("LeftParen", "(", 0, 0)
SymA == Token("Symbol", "a", 0, 1)
Num1 == Token("Number", "1", 0, 3)
RP == Token("RightParen", ")", 0, 4)

\* The token vectors submitted to process_vector: three that are accepted,
\* and one for each way a call can fail (a stray ")", an unclosed "(", a
\* number after "(", two data on one line, the empty vector).
TokenVectors ==
    { <<SymA>>, <<Num1>>, <<LP, SymA, RP>>,
      <<RP>>, <<LP, SymA>>, <<LP, Num1, RP>>, <<SymA, Num1>>, <<>> }

Lines == 0..MaxLine

\* ---------------------------------------------------------------- results
Ok == [tag |-> "Ok"]
Err(e) == [tag |-> "Err", error |-> e]
UnexpectedClosingParen(ln, col) ==
    [tag |-> "Err", error |-> "UnexpectedClosingParen", line |-> ln, column |-> col]
\* An arithmetic overflow or out-of-bounds index aborts the call by panic.
Panic == [tag |-> "Panic"]

\* Option<T>
None == <<>>
Some(v) == <<v>>

\* ---------------------------------------------------------------- rendering
tokens_to_string_piece(token) ==
    CASE token.token_type = "LeftParen"  -> "("
      [] token.token_type = "RightParen" -> ")"
      [] token.token_type = "Symbol"     -> token.lexeme
      [] token.token_type = "Number"     -> token.lexeme
      [] token.token_type = "String"     -> "\"" \o token.lexeme \o "\""
      [] token.token_type = "Boolean"    -> token.lexeme

\* The rendering is the pieces joined by single spaces; it is kept as the
\* sequence of its space-separated pieces.
tokens_to_string(tokens) == [i \in 1..Len(tokens) |-> tokens_to_string_piece(tokens[i])]

\* The external reader (rsexp): accepts a text that is exactly one datum, an
\* atom or a parenthesised list of data.  read_datum and read_list return the
\* position after what they read, 0 when they fail.
RECURSIVE read_datum(_, _), read_list(_, _)
read_datum(p, i) ==
    IF i > Len(p) THEN 0
    ELSE IF p[i] = ")" THEN 0
    ELSE IF p[i] = "(" THEN read_list(p, i + 1)
    ELSE i + 1

read_list(p, i) ==
    IF i > Len(p) THEN 0
    ELSE IF p[i] = ")" THEN i + 1
    ELSE LET j == read_datum(p, i) IN IF j = 0 THEN 0 ELSE read_list(p, j)

Sexp_from_str(p) ==
    IF read_datum(p, 1) = Len(p) + 1 THEN [tag |-> "Ok", sexp |-> p]
    ELSE [tag |-> "Err", msg |-> "parse"]

\* LispVal::from(sexp): the structured value, identified by the text read.
LispVal_from(sexp) == [lisp_val |-> sexp]

check_syntax_with_rsexp(tokens) ==
    LET s_expr_str == tokens_to_string(tokens)
        r == Sexp_from_str(s_expr_str)
    IN  IF r.tag = "Ok" THEN [tag |-> "Ok", val |-> LispVal_from(r.sexp)]
        ELSE [tag |-> "Err", error |-> "ParseError"]

\* ---------------------------------------------------------------- validator
\* The first loop with the test made before the decrement: a closing
\* parenthesis met at counter zero goes unnoticed.
RECURSIVE balance_scan_late(_, _, _)
balance_scan_late(tokens, i, paren_counter) ==
    IF i > Len(tokens) THEN [tag |-> "Ok", paren_counter |-> paren_counter]
    ELSE IF tokens[i].token_type = "LeftParen"
         THEN balance_scan_late(tokens, i + 1, paren_counter + 1)
    ELSE IF tokens[i].token_type = "RightParen"
         THEN IF paren_counter < 0
              THEN UnexpectedClosingParen(tokens[i].line, tokens[i].column)
              ELSE balance_scan_late(tokens, i + 1, paren_counter - 1)
    ELSE balance_scan_late(tokens, i + 1, paren_counter)

\* First loop of is_vect_ready: the final counter, or the error of the first
\* closing parenthesis that drives the counter below zero.
RECURSIVE balance_scan(_, _, _)
balance_scan(tokens, i, paren_counter) ==
    IF i > Len(tokens) THEN [tag |-> "Ok", paren_counter |-> paren_counter]
    ELSE IF tokens[i].token_type = "LeftParen"
         THEN balance_scan(tokens, i + 1, paren_counter + 1)
    ELSE IF tokens[i].token_type = "RightParen"
         THEN IF paren_counter - 1 < 0
              THEN UnexpectedClosingParen(tokens[i].line, tokens[i].column)
              ELSE balance_scan(tokens, i + 1, paren_counter - 1)
    ELSE balance_scan(tokens, i + 1, paren_counter)

\* Second loop of is_vect_ready, i ranging over 0..len-2 (here 1..Len-1).
RECURSIVE shape_scan(_, _)
shape_scan(tokens, i) ==
    IF i > Len(tokens) - 1 THEN Ok
    ELSE IF /\ tokens[i].token_type = "LeftParen"
            /\ i + 1 <= Len(tokens)
            /\ tokens[i + 1].token_type # "Symbol"
            /\ tokens[i + 1].token_type # "LeftParen"
         THEN Err("ExpectedSymbolAfterOpenParen")
    ELSE shape_scan(tokens, i + 1)

\* is_vect_ready with its two checks in the other order.
is_vect_ready_shape_first(tokens) ==
    IF Len(tokens) = 0 THEN Panic
    ELSE LET sh == shape_scan(tokens, 1)
             b == balance_scan(tokens, 1, 0)
         IN  IF sh.tag = "Err" THEN sh
             ELSE IF b.tag = "Err" THEN b
             ELSE IF b.paren_counter > 0 THEN Err("UnclosedParenthesis")
             ELSE Ok

is_vect_ready(tokens) ==
    LET b == balance_scan(tokens, 1, 0) IN
    IF b.tag = "Err" THEN b
    ELSE IF b.paren_counter > 0 THEN Err("UnclosedParenthesis")
    \* tokens.len() - 1 on an empty vector: the subtraction overflows, and
    \* where it wraps the loop indexes tokens[0] out of bounds.
    ELSE IF Len(tokens) = 0 THEN Panic
    ELSE shape_scan(tokens, 1)

\* ---------------------------------------------------------------- hashing
\* What hash_token_vector feeds the hasher for one token.
hash_token(token) == <<token.token_type, token.lexeme, token.line, token.column>>

\* DefaultHasher is taken as collision free: the digest is identified with
\* the stream of values written to the hasher, token after token.
RECURSIVE hash_token_vector(_)
hash_token_vector(tokens) ==
    IF Len(tokens) = 0 THEN <<>>
    ELSE hash_token(Head(tokens)) \o hash_token_vector(Tail(tokens))

\* ---------------------------------------------------------------- ReadyVec
ReadyVec_new(tokens, line) ==
    [vect_tokens |-> tokens, vect_line |-> line, indices |-> {}, parsed_value |-> None]

ReadyVec_new_with_parsed(tokens, line, parsed) ==
    [ReadyVec_new(tokens, line) EXCEPT !.parsed_value = Some(parsed)]

\* create_ready_vec that drops the parsed value it was given.
create_ready_vec_unparsed(tokens, line, parsed_val) ==
    [ReadyVec_new(tokens, line) EXCEPT !.indices =
        { <<<<i - 1, tokens[i].lexeme>>, i - 1>> : i \in 1..Len(tokens) }]

\* indices maps the key "{i}_{lexeme}" to i (ordinals from 0); kept as the
\* set of its (key, index) pairs.
create_ready_vec(tokens, line, parsed_val) ==
    LET ready_vec == IF parsed_val # None
                     THEN ReadyVec_new_with_parsed(tokens, line, parsed_val[1])
                     ELSE ReadyVec_new(tokens, line)
    IN  [ready_vec EXCEPT !.indices =
            { <<<<i - 1, tokens[i].lexeme>>, i - 1>> : i \in 1..Len(tokens) }]

\* ---------------------------------------------------------------- cache
\* The moka cache as the finite map of its live entries.
Cache_insert(cache, key, value) ==
    [k \in DOMAIN cache \cup {key} |-> IF k = key THEN value ELSE cache[k]]

Cache_invalidate(cache, keys) == [k \in DOMAIN cache \ keys |-> cache[k]]

Cache_contains_key(cache, key) == key \in DOMAIN cache

EmptyCache == [k \in {} |-> None]

\* ---------------------------------------------------------------- session
\* LispInterpreter::new
NewSession ==
    /\ ready_code = EmptyCache
    /\ current_ptr = 0
    /\ total_lines = 0
    /\ result = [op |-> "new"]

\* No tree handed out, nothing under validation, no get_tree call under way,
\* no line changed, no program written, no lexer at work.
NoSnapshot == snapshot = None
NoValidation == v_tokens = <<>>
NoFrame == frame = None
NoChange == changed = None
NoCode == lisp_code = <<>>
NoLexer ==
    /\ source = <<>>
    /\ lexer = [input |-> <<>>, line |-> 1, column |-> 0]
    /\ token_vector = <<>>

Init == NewSession /\ NoSnapshot /\ NoValidation /\ NoFrame /\ NoChange /\ NoCode /\ NoLexer

set_total_lines(lines) ==
    /\ total_lines' = lines
    /\ result' = [op |-> "set_total_lines", lines |-> lines]
    /\ UNCHANGED <<ready_code, current_ptr>>
    /\ UNCHANGED aux

\* process_vector that stores the unit before the reader has accepted it.
process_vector_insert_first(tokens, line) ==
    LET ready == is_vect_ready(tokens) IN
    IF ready.tag # "Ok"
    THEN /\ result' = [op |-> "process_vector", ret |-> ready]
         /\ UNCHANGED session
         /\ UNCHANGED aux
    ELSE LET parsed == check_syntax_with_rsexp(tokens)
             hash == hash_token_vector(tokens)
         IN  IF parsed.tag # "Ok"
             THEN /\ ready_code' = Cache_insert(ready_code, hash,
                                                create_ready_vec(tokens, line, None))
                  /\ result' = [op |-> "process_vector", ret |-> Err(parsed.error)]
                  /\ UNCHANGED <<current_ptr, total_lines>>
                  /\ UNCHANGED aux
             ELSE /\ ready_code' = Cache_insert(ready_code, hash,
                                        create_ready_vec(tokens, line, Some(parsed.val)))
                  /\ current_ptr' = line + 1
                  /\ result' = [op |-> "process_vector", ret |-> Ok,
                                tokens |-> tokens, line |-> line]
                  /\ UNCHANGED total_lines
                  /\ UNCHANGED aux

\* process_vector that mixes the line into the cache key.
process_vector_line_key(tokens, line) ==
    LET ready == is_vect_ready(tokens) IN
    IF ready.tag # "Ok"
    THEN /\ result' = [op |-> "process_vector", ret |-> ready]
         /\ UNCHANGED session
         /\ UNCHANGED aux
    ELSE LET parsed == check_syntax_with_rsexp(tokens) IN
         IF parsed.tag # "Ok"
         THEN /\ result' = [op |-> "process_vector", ret |-> Err(parsed.error)]
              /\ UNCHANGED session
              /\ UNCHANGED aux
         ELSE /\ ready_code' = Cache_insert(ready_code, hash_token_vector(tokens) \o <<line>>,
                                    create_ready_vec(tokens, line, Some(parsed.val)))
              /\ current_ptr' = line + 1
              /\ result' = [op |-> "process_vector", ret |-> Ok,
                            tokens |-> tokens, line |-> line]
              /\ UNCHANGED total_lines
              /\ UNCHANGED aux

\* process_vector whose pointer only ever moves forward.
process_vector_monotone(tokens, line) ==
    LET ready == is_vect_ready(tokens) IN
    IF ready.tag # "Ok"
    THEN /\ result' = [op |-> "process_vector", ret |-> ready]
         /\ UNCHANGED session
         /\ UNCHANGED aux
    ELSE LET parsed == check_syntax_with_rsexp(tokens) IN
         IF parsed.tag # "Ok"
         THEN /\ result' = [op |-> "process_vector", ret |-> Err(parsed.error)]
              /\ UNCHANGED session
              /\ UNCHANGED aux
         ELSE /\ ready_code' = Cache_insert(ready_code, hash_token_vector(tokens),
                                    create_ready_vec(tokens, line, Some(parsed.val)))
              /\ current_ptr' = IF line + 1 > current_ptr THEN line + 1 ELSE current_ptr
              /\ result' = [op |-> "process_vector", ret |-> Ok,
                            tokens |-> tokens, line |-> line]
              /\ UNCHANGED total_lines
              /\ UNCHANGED aux

\* process_vector that sets the pointer to the line it was given.
process_vector_ptr_line(tokens, line) ==
    LET ready == is_vect_ready(tokens) IN
    IF ready.tag # "Ok"
    THEN /\ result' = [op |-> "process_vector", ret |-> ready]
         /\ UNCHANGED session
         /\ UNCHANGED aux
    ELSE LET parsed == check_syntax_with_rsexp(tokens) IN
         IF parsed.tag # "Ok"
         THEN /\ result' = [op |-> "process_vector", ret |-> Err(parsed.error)]
              /\ UNCHANGED session
              /\ UNCHANGED aux
         ELSE LET hash == hash_token_vector(tokens)
                  ready_vec == create_ready_vec(tokens, line, Some(parsed.val))
              IN  /\ ready_code' = Cache_insert(ready_code, hash, ready_vec)
                  /\ current_ptr' = line
                  /\ result' = [op |-> "process_vector", ret |-> Ok,
                                tokens |-> tokens, line |-> line]
                  /\ UNCHANGED total_lines
                  /\ UNCHANGED aux

\* process_vector that counts its successful calls in the pointer.
process_vector_ptr_next(tokens, line) ==
    LET ready == is_vect_ready(tokens) IN
    IF ready.tag # "Ok"
    THEN /\ result' = [op |-> "process_vector", ret |-> ready]
         /\ UNCHANGED session
         /\ UNCHANGED aux
    ELSE LET parsed == check_syntax_with_rsexp(tokens) IN
         IF parsed.tag # "Ok"
         THEN /\ result' = [op |-> "process_vector", ret |-> Err(parsed.error)]
              /\ UNCHANGED session
              /\ UNCHANGED aux
         ELSE LET hash == hash_token_vector(tokens)
                  ready_vec == create_ready_vec(tokens, line, Some(parsed.val))
              IN  /\ ready_code' = Cache_insert(ready_code, hash, ready_vec)
                  /\ current_ptr' = current_ptr + 1
                  /\ result' = [op |-> "process_vector", ret |-> Ok,
                                tokens |-> tokens, line |-> line]
                  /\ UNCHANGED total_lines
                  /\ UNCHANGED aux

process_vector(tokens, line) ==
    LET ready == is_vect_ready(tokens) IN
    IF ready.tag # "Ok"
    THEN /\ result' = [op |-> "process_vector", ret |-> ready]
         /\ UNCHANGED session
         /\ UNCHANGED aux
    ELSE LET parsed == check_syntax_with_rsexp(tokens) IN
         IF parsed.tag # "Ok"
         THEN /\ result' = [op |-> "process_vector", ret |-> Err(parsed.error)]
              /\ UNCHANGED session
              /\ UNCHANGED aux
         ELSE LET hash == hash_token_vector(tokens)
                  ready_vec == create_ready_vec(tokens, line, Some(parsed.val))
              IN  /\ ready_code' = Cache_insert(ready_code, hash, ready_vec)
                  /\ current_ptr' = line + 1
                  /\ result' = [op |-> "process_vector", ret |-> Ok,
                                tokens |-> tokens, line |-> line]
                  /\ UNCHANGED total_lines
                  /\ UNCHANGED aux

\* The scan loop with the membership test negated.
RECURSIVE scan_matches_negated(_, _, _, _, _)
scan_matches_negated(cache, new_code, i, max_check, matches) ==
    IF i >= max_check THEN matches
    ELSE IF ~ Cache_contains_key(cache, hash_token_vector(new_code[i + 1]))
         THEN scan_matches_negated(cache, new_code, i + 1, max_check, matches + 1)
         ELSE matches

\* The scan loop without its break: hits after a miss are counted too.
RECURSIVE scan_matches_no_break(_, _, _, _, _)
scan_matches_no_break(cache, new_code, i, max_check, matches) ==
    IF i >= max_check THEN matches
    ELSE scan_matches_no_break(cache, new_code, i + 1, max_check,
            IF Cache_contains_key(cache, hash_token_vector(new_code[i + 1]))
            THEN matches + 1 ELSE matches)

\* The body of the scan loop of should_rebuild, i from 0 to max_check - 1:
\* the number of matches when the loop ends or breaks.
RECURSIVE scan_matches(_, _, _, _, _)
scan_matches(cache, new_code, i, max_check, matches) ==
    IF i >= max_check THEN matches
    ELSE LET hash == hash_token_vector(new_code[i + 1]) IN
         IF Cache_contains_key(cache, hash)
         THEN scan_matches(cache, new_code, i + 1, max_check, matches + 1)
         ELSE matches

Min(a, b) == IF a <= b THEN a ELSE b

\* should_rebuild without its early return: 0 / 0 is NaN and NaN < 0.5 is
\* false.
should_rebuild_value_no_guard(cache, ptr, new_code) ==
    LET max_check == Min(ptr, Len(new_code))
        matches == scan_matches(cache, new_code, 0, max_check, 0)
    IN  2 * matches < ptr

\* matches as f64 / current_ptr as f64 < 0.5 : both are small integers, the
\* quotient is rounded correctly and 0.5 is a float, so the comparison is
\* exactly 2 * matches < current_ptr.
\* should_rebuild with a threshold of a quarter.
should_rebuild_value_quarter(cache, ptr, new_code) ==
    IF ptr = 0 \/ Len(new_code) = 0 THEN TRUE
    ELSE LET max_check == Min(ptr, Len(new_code))
             matches == scan_matches(cache, new_code, 0, max_check, 0)
         IN  4 * matches < ptr

should_rebuild_value(cache, ptr, new_code) ==
    IF ptr = 0 \/ Len(new_code) = 0 THEN TRUE
    ELSE LET max_check == Min(ptr, Len(new_code))
             matches == scan_matches(cache, new_code, 0, max_check, 0)
         IN  2 * matches < ptr

should_rebuild(new_code) ==
    /\ result' = [op |-> "should_rebuild", new_code |-> new_code,
                  ret |-> should_rebuild_value(ready_code, current_ptr, new_code)]
    /\ UNCHANGED session
    /\ UNCHANGED aux

\* invalidate_from that keeps the entry of the line at position.
invalidate_from_strict(position) ==
    LET keys == { k \in DOMAIN ready_code : ready_code[k].vect_line > position } IN
    /\ ready_code' = Cache_invalidate(ready_code, keys)
    /\ current_ptr' = IF position < current_ptr THEN position ELSE current_ptr
    /\ result' = [op |-> "invalidate_from", position |-> position]
    /\ UNCHANGED total_lines
    /\ UNCHANGED aux

\* invalidate_from that moves the pointer to position whatever it was.
invalidate_from_set_ptr(position) ==
    LET keys == { k \in DOMAIN ready_code : ready_code[k].vect_line >= position } IN
    /\ ready_code' = Cache_invalidate(ready_code, keys)
    /\ current_ptr' = position
    /\ result' = [op |-> "invalidate_from", position |-> position]
    /\ UNCHANGED total_lines
    /\ UNCHANGED aux

\* invalidate_from that lowers the pointer and leaves the cache as it is.
invalidate_from_ptr_only(position) ==
    /\ ready_code' = ready_code
    /\ current_ptr' = IF position < current_ptr THEN position ELSE current_ptr
    /\ result' = [op |-> "invalidate_from", position |-> position]
    /\ UNCHANGED total_lines
    /\ UNCHANGED aux

invalidate_from(position) ==
    LET keys == { k \in DOMAIN ready_code : ready_code[k].vect_line >= position } IN
    /\ ready_code' = Cache_invalidate(ready_code, keys)
    /\ current_ptr' = IF position < current_ptr THEN position ELSE current_ptr
    /\ result' = [op |-> "invalidate_from", position |-> position]
    /\ UNCHANGED total_lines
    /\ UNCHANGED aux

\* ---------------------------------------------------------------- Tree
Tree_new == [tree |-> <<>>, indices |-> {}]

\* indices.insert(key, index): a later insert under a key replaces the earlier.
Tree_add_vec(t, key, ready_vec) ==
    LET index == Len(t.tree) IN
    [tree |-> Append(t.tree, ready_vec),
     indices |-> { kv \in t.indices : kv[1] # key } \cup { <<key, index>> }]

\* The orders in which ready_code.iter() can yield the live entries.
IterOrders(cache) ==
    LET n == Cardinality(DOMAIN cache) IN
    { ord \in [1..n -> DOMAIN cache] : \A i, j \in 1..n : ord[i] = ord[j] => i = j }

\* Vec::sort on the collected line numbers (insertion into a sorted prefix).
RECURSIVE sort_insert(_, _)
sort_insert(sorted, x) ==
    IF sorted = <<>> THEN <<x>>
    ELSE IF x < Head(sorted) THEN <<x>> \o sorted
    ELSE <<Head(sorted)>> \o sort_insert(Tail(sorted), x)

\* get_tree without the sort: the line numbers stay in iteration order.
sort_forgotten(s) == s

RECURSIVE sort(_)
sort(s) == IF s = <<>> THEN <<>> ELSE sort_insert(sort(Tail(s)), Head(s))

\* The inner loop of get_tree: the first entry met, in iteration order, whose
\* line is the wanted one; None when no entry has it.
RECURSIVE first_with_line(_, _, _, _)
first_with_line(cache, ord, i, line) ==
    IF i > Len(ord) THEN None
    ELSE IF cache[ord[i]].vect_line = line THEN Some(cache[ord[i]])
    ELSE first_with_line(cache, ord, i + 1, line)

\* The outer loop of get_tree over the sorted line numbers.
RECURSIVE build_tree(_, _, _, _, _)
build_tree(cache, ord, line_numbers, i, tree) ==
    IF i > Len(line_numbers) THEN tree
    ELSE LET line == line_numbers[i]
             found == first_with_line(cache, ord, 1, line)
         IN  build_tree(cache, ord, line_numbers, i + 1,
                        IF found = None THEN tree
                        ELSE Tree_add_vec(tree, <<"line_", line>>, found[1]))

get_tree_with(cache, ord) ==
    LET line_numbers == sort([i \in 1..Len(ord) |-> cache[ord[i]].vect_line])
    IN  build_tree(cache, ord, line_numbers, 1, Tree_new)

\* Every tree get_tree can return for a cache.
get_tree_values(cache) == { get_tree_with(cache, ord) : ord \in IterOrders(cache) }

get_tree ==
    /\ \E t \in get_tree_values(ready_code) : result' = [op |-> "get_tree", ret |-> t]
    /\ UNCHANGED session
    /\ UNCHANGED aux

get_progress == <<current_ptr, total_lines>>

\* reset that forgets the expected number of lines as well.
reset_all ==
    /\ ready_code' = EmptyCache
    /\ current_ptr' = 0
    /\ total_lines' = 0
    /\ result' = [op |-> "reset"]
    /\ UNCHANGED aux

reset ==
    /\ ready_code' = EmptyCache
    /\ current_ptr' = 0
    /\ result' = [op |-> "reset"]
    /\ UNCHANGED total_lines
    /\ UNCHANGED aux

is_complete == current_ptr >= total_lines /\ total_lines > 0

\* The cache drops an entry on its own, by capacity or by time to live.
Evict ==
    /\ \E k \in DOMAIN ready_code : ready_code' = Cache_invalidate(ready_code, {k})
    /\ result' = [op |-> "evict"]
    /\ UNCHANGED <<current_ptr, total_lines>>
    /\ UNCHANGED aux

\* ---------------------------------------------------------------- inputs
\* The token vectors process_vector accepts.
ReadyVectors ==
    { t \in TokenVectors :
        /\ is_vect_ready(t).tag = "Ok"
        /\ check_syntax_with_rsexp(t).tag = "Ok" }

\* The candidate lists given to should_rebuild: re-tokenized accepted lines.
CandidateLists == UNION { [1..n -> ReadyVectors] : n \in 0..MaxCand }

Positions == 0..(MaxLine + 2)

Next ==
    \/ \E n \in 0..(MaxLine + 1) : set_total_lines(n)
    \/ \E tokens \in TokenVectors, line \in Lines : process_vector(tokens, line)
    \/ \E new_code \in CandidateLists : should_rebuild(new_code)
    \/ \E position \in Positions : invalidate_from(position)
    \/ get_tree
    \/ reset
    \/ Evict

Spec == Init /\ [][Next]_vars

\* ---------------------------------------------------------------- calls that write
\* A session driven by the calls that change it, in any order and with lines
\* in any order, while the cache evicts on its own.
NextCalls ==
    \/ \E n \in 0..(MaxLine + 1) : set_total_lines(n)
    \/ \E tokens \in TokenVectors, line \in Lines : process_vector(tokens, line)
    \/ \E position \in Positions : invalidate_from(position)
    \/ reset
    \/ Evict

SpecCalls == Init /\ [][NextCalls]_vars

\* ---------------------------------------------------------------- kept trees
\* get_tree that hands the entries over instead of cloning them.
get_tree_kept_draining ==
    /\ \E t \in get_tree_values(ready_code) :
          /\ result' = [op |-> "get_tree", ret |-> t]
          /\ snapshot' = Some(t)
    /\ ready_code' = EmptyCache
    /\ UNCHANGED <<current_ptr, total_lines, v_tokens, frame, changed, lisp_code, source, lexer, token_vector>>

\* get_tree whose Tree, made of clones of the units, the caller keeps.
get_tree_kept ==
    /\ \E t \in get_tree_values(ready_code) :
          /\ result' = [op |-> "get_tree", ret |-> t]
          /\ snapshot' = Some(t)
    /\ UNCHANGED <<session, v_tokens, frame, changed, lisp_code, source, lexer, token_vector>>

\* The token vectors submitted while a tree is held: two that are accepted
\* and one that is not.
SnapVectors == { <<SymA>>, <<LP, SymA, RP>>, <<RP>> }

\* A session whose caller keeps the last tree it asked for.
NextSnap ==
    \/ \E tokens \in SnapVectors, line \in Lines : process_vector(tokens, line)
    \/ \E position \in Positions : invalidate_from(position)
    \/ get_tree_kept
    \/ reset
    \/ Evict

SpecSnap == Init /\ [][NextSnap]_vars

\* ---------------------------------------------------------------- get_tree, scan by scan
\* The units the cache holds.
Units(cache) == { cache[k] : k \in DOMAIN cache }

\* The first scan of get_tree: ready_code.iter() is mapped to the lines of
\* the live entries, which are collected and sorted. The frame also keeps
\* the set of live units at each instant of the call.
get_tree_collect ==
    /\ frame = None
    /\ \E ord \in IterOrders(ready_code) :
          frame' = Some([line_numbers |-> sort([i \in 1..Len(ord) |-> ready_code[ord[i]].vect_line]),
                         next |-> 1,
                         tree |-> Tree_new,
                         instants |-> {Units(ready_code)}])
    /\ UNCHANGED <<session, result, snapshot, v_tokens, changed, lisp_code, source, lexer, token_vector>>

\* One turn of the loop over line_numbers: a new scan of the cache that
\* pushes a clone of the first entry met with the wanted line.
get_tree_scan ==
    /\ frame # None
    /\ frame[1].next <= Len(frame[1].line_numbers)
    /\ \E ord \in IterOrders(ready_code) :
          LET line == frame[1].line_numbers[frame[1].next]
              found == first_with_line(ready_code, ord, 1, line)
          IN  frame' = Some([frame[1] EXCEPT
                                !.next = @ + 1,
                                !.tree = IF found = None THEN @
                                         ELSE Tree_add_vec(@, <<"line_", line>>, found[1])])
    /\ UNCHANGED <<session, result, snapshot, v_tokens, changed, lisp_code, source, lexer, token_vector>>

\* The loop is over: the tree is returned.
get_tree_return ==
    /\ frame # None
    /\ frame[1].next > Len(frame[1].line_numbers)
    /\ result' = [op |-> "get_tree", ret |-> frame[1].tree]
    /\ frame' = None
    /\ UNCHANGED <<session, snapshot, v_tokens, changed, lisp_code, source, lexer, token_vector>>

\* The cache drops an entry, by capacity or by time to live, while get_tree
\* is between two scans.
Evict_between_scans ==
    /\ frame # None
    /\ \E k \in DOMAIN ready_code : ready_code' = Cache_invalidate(ready_code, {k})
    /\ frame' = Some([frame[1] EXCEPT !.instants = @ \cup {Units(ready_code')}])
    /\ UNCHANGED <<current_ptr, total_lines, result, snapshot, v_tokens, changed, lisp_code, source, lexer,
                   token_vector>>

\* A session whose snapshots are taken scan by scan: the caller's calls come
\* one at a time, the cache evicts whenever it likes.
NextScan ==
    \/ \E tokens \in SnapVectors, line \in Lines :
          frame = None /\ process_vector(tokens, line)
    \/ frame = None /\ Evict
    \/ get_tree_collect
    \/ get_tree_scan
    \/ get_tree_return
    \/ Evict_between_scans

SpecScan == Init /\ [][NextScan]_vars

\* ---------------------------------------------------------------- a first pass
\* The loop of the example: a fresh session is told the number of lines, then
\* the lines are submitted from 0 upwards, each with a token vector not yet
\* cached; a line whose vector is refused is submitted again.
NextRun ==
    \/ \E n \in 1..(MaxLine + 1) : result.op = "new" /\ set_total_lines(n)
    \/ \E tokens \in TokenVectors :
          /\ result.op # "new"
          /\ current_ptr < total_lines
          /\ ~ Cache_contains_key(ready_code, hash_token_vector(tokens))
          /\ process_vector(tokens, current_ptr)
    \/ result.op # "new" /\ get_tree

SpecRun == Init /\ [][NextRun]_vars

\* ---------------------------------------------------------------- an edit
\* The caller finds that the lines from some index on have changed.
change_line ==
    /\ snapshot # None
    /\ changed = None
    /\ \E k \in 0..(total_lines - 1) : changed' = Some(k)
    /\ UNCHANGED <<session, result, snapshot, v_tokens, frame, lisp_code, source, lexer, token_vector>>

\* The script of the example: a first pass over the lines from 0 upwards and
\* the tree of it, kept; then the cache is invalidated from the changed line
\* and the lines from there on are submitted again, each with a token vector
\* that is not cached, and the updated tree is asked for.
NextEdit ==
    \/ \E n \in 1..(MaxLine + 1) : result.op = "new" /\ set_total_lines(n)
    \/ \E tokens \in TokenVectors :
          /\ result.op # "new"
          /\ snapshot = None
          /\ current_ptr < total_lines
          /\ process_vector(tokens, current_ptr)
    \/ snapshot = None /\ is_complete /\ get_tree_kept
    \/ change_line
    \/ /\ changed # None
       /\ result.op = "get_tree"
       /\ result.ret = snapshot[1]
       /\ invalidate_from(changed[1])
    \/ \E tokens \in TokenVectors :
          /\ changed # None
          /\ result.op \in {"invalidate_from", "process_vector"}
          /\ current_ptr < total_lines
          /\ ~ Cache_contains_key(ready_code, hash_token_vector(tokens))
          /\ process_vector(tokens, current_ptr)
    \/ /\ changed # None
       /\ result.op = "process_vector"
       /\ is_complete
       /\ get_tree

SpecEdit == Init /\ [][NextEdit]_vars

\* ---------------------------------------------------------------- the same program again
\* The caller writes a program of accepted lines.
write_code ==
    /\ result.op = "new"
    /\ lisp_code = <<>>
    /\ \E n \in 1..(MaxLine + 1) : lisp_code' \in [1..n -> ReadyVectors]
    /\ UNCHANGED <<session, result, snapshot, v_tokens, frame, changed, source, lexer,
                   token_vector>>

\* The script of the example up to its question: the program is submitted
\* line by line from 0 upwards; after that the cache may evict, and the
\* caller asks should_rebuild with the lines of the same program.
NextAgain ==
    \/ write_code
    \/ /\ result.op = "new"
       /\ lisp_code # <<>>
       /\ set_total_lines(Len(lisp_code))
    \/ /\ result.op \in {"set_total_lines", "process_vector"}
       /\ current_ptr < total_lines
       /\ process_vector(lisp_code[current_ptr + 1], current_ptr)
    \/ /\ result.op \in {"process_vector", "evict"}
       /\ is_complete
       /\ Evict
    \/ /\ result.op \in {"process_vector", "evict"}
       /\ is_complete
       /\ should_rebuild(lisp_code)

SpecAgain == Init /\ [][NextAgain]_vars

\* ---------------------------------------------------------------- validator alone
\* The lexeme a token of each kind carries in the vectors under validation.
LexemeOf(tt) ==
    CASE tt = "LeftParen"  -> "("
      [] tt = "RightParen" -> ")"
      [] tt = "Symbol"     -> "a"
      [] tt = "Number"     -> "1"
      [] tt = "String"     -> "s"
      [] tt = "Boolean"    -> "#t"

\* Every vector of at most MaxTokens tokens, of every kind, the token at
\* ordinal i standing on line 1 at column i.
ValidatorInputs ==
    UNION { { [i \in 1..n |-> Token(kinds[i], LexemeOf(kinds[i]), 1, i - 1)] :
                kinds \in [1..n -> TokenType] } : n \in 0..MaxTokens }

InitValidate ==
    /\ NewSession /\ NoSnapshot /\ NoFrame /\ NoChange /\ NoCode /\ NoLexer
    /\ v_tokens \in ValidatorInputs

validate ==
    /\ result.op = "new"
    /\ result' = [op |-> "is_vect_ready", ret |-> is_vect_ready(v_tokens)]
    /\ UNCHANGED <<session, snapshot, v_tokens, frame, changed, lisp_code, source, lexer, token_vector>>

NextValidate == validate

SpecValidate == InitValidate /\ [][NextValidate]_vars

\* ---------------------------------------------------------------- lexer
\* Characters are one-character strings, a string is a sequence of them.
Digits == {"0", "1", "2", "3", "4", "5", "6", "7", "8", "9"}
Letters == {"a", "f", "n", "r", "t"}

\* char::is_alphanumeric and char::is_digit(10) on the characters in use.
is_alphanumeric(c) == c \in Digits \cup Letters
is_digit(c) == c \in Digits

\* The backquote character, which a string of this module cannot hold.
Backquote == "backquote"

\* The punctuation is_valid_character lists: ( ) [ ] { } " ' backquote , ;
\* # | \ + - * / = < > ! ? _ . space tab newline carriage-return
ValidPunctuation ==
    {"(", ")", "[", "]", "{", "}", "\"", "'", Backquote, ",", ";", "#", "|", "\\", "+", "-",
     "*", "/", "=", "<", ">", "!", "?", "_", ".", " ", "\t", "\n", "\r"}

is_valid_character(c) == is_alphanumeric(c) \/ c \in ValidPunctuation

\* "+-*/=<>!_?"
SymbolPunctuation == {"+", "-", "*", "/", "=", "<", ">", "!", "_", "?"}

\* TokenEnum
T_LeftParen == [kind |-> "LeftParen"]
T_RightParen == [kind |-> "RightParen"]
T_Quote == [kind |-> "Quote"]
T_Symbol(str) == [kind |-> "Symbol", text |-> str]
\* The f64 is identified by the literal it was parsed from.
T_Number(str) == [kind |-> "Number", text |-> str]
T_String(str) == [kind |-> "String", text |-> str]
T_Bool(b) == [kind |-> "Bool", value |-> b]
T_EOF == [kind |-> "EOF"]
T_Error(msg) == [kind |-> "Error", text |-> msg]

Token_init_instance(token, position) ==
    [token |-> token, line |-> position[1], column |-> position[2]]

Lexer_new(input) == [input |-> input, line |-> 1, column |-> 0]

get_position(lx) == <<lx.line, lx.column>>

\* format!("{} {} at line: {} clomun {}", message, c, line, column)
error_handle(lx, c, message) == <<message, c, lx.line, lx.column>>

\* The lexer after the call and the character returned (an Option).
next_element(lx) ==
    IF lx.input = <<>> THEN [lx |-> lx, c |-> None]
    ELSE LET c == Head(lx.input) IN
         [lx |-> [input |-> Tail(lx.input),
                  line |-> IF c = "\n" THEN lx.line + 1 ELSE lx.line,
                  column |-> IF c = "\n" THEN 0 ELSE lx.column + 1],
          c |-> Some(c)]

peek_next(lx) == IF lx.input = <<>> THEN None ELSE Some(Head(lx.input))

\* The inner loop of trim: consume through the next newline or to the end.
RECURSIVE skip_comment(_)
skip_comment(lx) ==
    LET e == next_element(lx) IN
    IF e.c = None THEN e.lx
    ELSE IF e.c[1] = "\n" THEN e.lx
    ELSE skip_comment(e.lx)

RECURSIVE trim(_)
trim(lx) ==
    LET p == peek_next(lx) IN
    IF p = None THEN lx
    ELSE IF p[1] \in {" ", "\n", "\t", "\r"} THEN trim(next_element(lx).lx)
    ELSE IF p[1] = ";" THEN trim(skip_comment(lx))
    ELSE lx

\* The loop of tokenize_symbol; string holds what was pushed so far.
RECURSIVE symbol_loop(_, _)
symbol_loop(lx, string) ==
    LET p == peek_next(lx) IN
    IF p # None /\ (is_alphanumeric(p[1]) \/ p[1] \in SymbolPunctuation)
    THEN symbol_loop(next_element(lx).lx, Append(string, p[1]))
    ELSE [lx |-> lx, token |-> T_Symbol(string)]

tokenize_symbol(lx, first_char) == symbol_loop(lx, <<first_char>>)

\* The digits of a numeral without the zeros in front of them.
RECURSIVE strip_leading_zeros(_)
strip_leading_zeros(digits) ==
    IF digits # <<>> /\ Head(digits) = "0" THEN strip_leading_zeros(Tail(digits))
    ELSE digits

\* The digits of a fraction without the zeros that end them.
RECURSIVE strip_trailing_zeros(_)
strip_trailing_zeros(digits) ==
    IF digits # <<>> /\ digits[Len(digits)] = "0"
    THEN strip_trailing_zeros(SubSeq(digits, 1, Len(digits) - 1))
    ELSE digits

\* The number a numeral of tokenize_number denotes: its sign, the digits of
\* its integer part and the digits of its fraction, so that +1, 1, 1. and 01
\* are one number.
f64_value(number_str) ==
    LET signed == number_str # <<>> /\ Head(number_str) \in {"-", "+"}
        body == IF signed THEN Tail(number_str) ELSE number_str
        dot_at == IF \E i \in 1..Len(body) : body[i] = "."
                  THEN CHOOSE i \in 1..Len(body) : body[i] = "."
                  ELSE Len(body) + 1
    IN  [negative |-> signed /\ Head(number_str) = "-",
         integer  |-> strip_leading_zeros(SubSeq(body, 1, dot_at - 1)),
         fraction |-> strip_trailing_zeros(SubSeq(body, dot_at + 1, Len(body)))]

\* str::parse::<f64> on what tokenize_number can collect (a sign, digits and
\* at most one dot): it succeeds when there is a digit.
parse_f64(number_str) ==
    IF \E i \in 1..Len(number_str) : is_digit(number_str[i])
    THEN [tag |-> "Ok", number |-> f64_value(number_str)]
    ELSE [tag |-> "Err"]

RECURSIVE number_loop(_, _, _)
number_loop(lx, number_str, dot) ==
    LET p == peek_next(lx) IN
    IF p # None /\ is_digit(p[1])
    THEN number_loop(next_element(lx).lx, Append(number_str, p[1]), dot)
    ELSE IF p # None /\ p[1] = "." /\ ~ dot
    THEN number_loop(next_element(lx).lx, Append(number_str, p[1]), TRUE)
    ELSE [lx |-> lx, number_str |-> number_str]

tokenize_number(lx, first_char) ==
    LET p == peek_next(lx) IN
    IF first_char \in {"-", "+"} /\ p # None /\ ~ is_digit(p[1])
    THEN [lx |-> lx, token |-> T_Symbol(<<first_char>>)]
    ELSE LET r == number_loop(lx, <<first_char>>, FALSE)
             parsed == parse_f64(r.number_str)
         IN  [lx |-> r.lx,
              token |-> IF parsed.tag = "Ok" THEN T_Number(parsed.number)
                        ELSE T_Symbol(r.number_str)]

\* The character an escape sequence stands for.
control_flow(c) ==
    CASE c = "n" -> "\n"
      [] c = "t" -> "\t"
      [] c = "r" -> "\r"
      [] OTHER   -> c

\* The while loop of tokenize_string.
RECURSIVE string_loop(_, _)
string_loop(lx, string) ==
    LET p == peek_next(lx) IN
    IF p = None THEN [lx |-> lx, token |-> T_String(string)]
    ELSE IF p[1] = "\"" THEN [lx |-> next_element(lx).lx, token |-> T_String(string)]
    ELSE IF p[1] = "\\"
         THEN LET e == next_element(next_element(lx).lx) IN
              string_loop(e.lx, IF e.c # None THEN Append(string, control_flow(e.c[1]))
                                ELSE string)
    ELSE string_loop(next_element(lx).lx, Append(string, p[1]))

\* tokenize_string begins with a call of next_element whose character it
\* does not keep.
tokenize_string(lx) == string_loop(next_element(lx).lx, <<>>)

\* next_token without the test of is_valid_character: an unknown character
\* starts a symbol.
next_token_unchecked(lx0) ==
    LET lx1 == trim(lx0)
        e == next_element(lx1)
        lx == e.lx
    IN  IF e.c = None THEN [lx |-> lx, token |-> T_EOF]
        ELSE LET c == e.c[1]
                 p == peek_next(lx)
             IN
             CASE c = "("  -> [lx |-> lx, token |-> T_LeftParen]
               [] c = ")"  -> [lx |-> lx, token |-> T_RightParen]
               [] c = "'"  -> [lx |-> lx, token |-> T_Quote]
               [] c = "\"" -> tokenize_string([lx EXCEPT !.column = @ - 1])
               [] c = "#"  ->
                    IF p = None THEN [lx |-> lx, token |-> T_Symbol(<<"#">>)]
                    ELSE IF p[1] = "t"
                         THEN [lx |-> next_element(lx).lx, token |-> T_Bool(TRUE)]
                    ELSE IF p[1] = "f"
                         THEN [lx |-> next_element(lx).lx, token |-> T_Bool(FALSE)]
                    ELSE tokenize_symbol(lx, "#")
               [] is_digit(c) -> tokenize_number(lx, c)
               [] c \in {"-", "+"} ->
                    IF p # None /\ is_digit(p[1]) THEN tokenize_number(lx, c)
                    ELSE tokenize_symbol(lx, c)
               [] OTHER -> tokenize_symbol(lx, c)

next_token(lx0) ==
    LET lx1 == trim(lx0)
        e == next_element(lx1)
        lx == e.lx
    IN  IF e.c = None THEN [lx |-> lx, token |-> T_EOF]
        ELSE LET c == e.c[1]
                 p == peek_next(lx)
             IN
             IF ~ is_valid_character(c)
             THEN [lx |-> lx, token |-> T_Error(error_handle(lx, c, "Invalid charecter"))]
             ELSE CASE c = "("  -> [lx |-> lx, token |-> T_LeftParen]
                    [] c = ")"  -> [lx |-> lx, token |-> T_RightParen]
                    [] c = "'"  -> [lx |-> lx, token |-> T_Quote]
                    [] c = "\"" -> tokenize_string([lx EXCEPT !.column = @ - 1])
                    [] c = "#"  ->
                         IF p = None THEN [lx |-> lx, token |-> T_Symbol(<<"#">>)]
                         ELSE IF p[1] = "t"
                              THEN [lx |-> next_element(lx).lx, token |-> T_Bool(TRUE)]
                         ELSE IF p[1] = "f"
                              THEN [lx |-> next_element(lx).lx, token |-> T_Bool(FALSE)]
                         ELSE tokenize_symbol(lx, "#")
                    [] is_digit(c) -> tokenize_number(lx, c)
                    [] c \in {"-", "+"} ->
                         IF p # None /\ is_digit(p[1]) THEN tokenize_number(lx, c)
                         ELSE tokenize_symbol(lx, c)
                    [] OTHER -> tokenize_symbol(lx, c)

\* tokenize_all with the end-of-input test moved before the push: the loop is
\* left without the EOF token in the vector.
tokenize_all_break_first ==
    /\ result.op # "tokenize_all"
    /\ LET r == next_token(lexer)
           token_struct == Token_init_instance(r.token, get_position(r.lx))
       IN  /\ lexer' = r.lx
           /\ token_vector' = IF r.token = T_EOF THEN token_vector
                              ELSE Append(token_vector, token_struct)
           /\ result' = IF r.token = T_EOF
                        THEN [op |-> "tokenize_all", ret |-> token_vector']
                        ELSE result
    /\ UNCHANGED <<session, snapshot, v_tokens, frame, changed, lisp_code, source>>

\* tokenize_all with a cursor that is put back where it was after every
\* token but EOF.
tokenize_all_cursor_kept ==
    /\ result.op # "tokenize_all"
    /\ LET r == next_token(lexer)
           token_struct == Token_init_instance(r.token, get_position(r.lx))
       IN  /\ lexer' = IF r.token = T_EOF THEN r.lx ELSE lexer
           /\ token_vector' = Append(token_vector, token_struct)
           /\ result' = IF r.token = T_EOF
                        THEN [op |-> "tokenize_all", ret |-> token_vector']
                        ELSE result
    /\ UNCHANGED <<session, snapshot, v_tokens, frame, changed, lisp_code, source>>

\* One turn of the loop of tokenize_all; the vector is returned after the
\* turn that pushed EOF.
tokenize_all ==
    /\ result.op # "tokenize_all"
    /\ LET r == next_token(lexer)
           token_struct == Token_init_instance(r.token, get_position(r.lx))
       IN  /\ lexer' = r.lx
           /\ token_vector' = Append(token_vector, token_struct)
           /\ result' = IF r.token = T_EOF
                        THEN [op |-> "tokenize_all", ret |-> token_vector']
                        ELSE result
    /\ UNCHANGED <<session, snapshot, v_tokens, frame, changed, lisp_code, source>>

\* The strings given to the lexer: parentheses, quote, string literals with
\* escapes and blanks on one side, numbers, signs, booleans, comments and a
\* character the lexer does not know on the other.
LiteralChars == {"(", ")", "\"", "\\", "n", "a", " ", "\n"}
AtomChars == {"#", "t", "1", "+", ".", ";", "@", "\n"}

Strings(chars) == UNION { [1..n -> chars] : n \in 0..MaxInput }

LexInputs == Strings(LiteralChars) \cup Strings(AtomChars)

InitLex ==
    /\ NewSession /\ NoSnapshot /\ NoValidation /\ NoFrame /\ NoChange /\ NoCode
    /\ source \in LexInputs
    /\ lexer = Lexer_new(source)
    /\ token_vector = <<>>

NextLex == tokenize_all

SpecLex == InitLex /\ [][NextLex]_vars

\* ---------------------------------------------------------------- properties
Keys(cache) == DOMAIN cache

\* A step that is a call of process_vector returning Ok.
ProcessedOk == result'.op = "process_vector" /\ result'.ret.tag = "Ok"

\* C1: a process_vector call that returns a validator or parser error leaves
\* the cache (its keys and every unit), current_ptr and total_lines as they
\* were.
C1_FailedProcessChangesNothing ==
    [][(result'.op = "process_vector" /\ result'.ret.tag = "Err")
        => /\ Keys(ready_code') = Keys(ready_code)
           /\ \A k \in Keys(ready_code) : ready_code'[k] = ready_code[k]
           /\ current_ptr' = current_ptr
           /\ total_lines' = total_lines]_vars

\* A parser error was returned by a session that holds units and has advanced.
C1_Witness ==
    /\ result.op = "process_vector"
    /\ result.ret.tag = "Err"
    /\ result.ret.error = "ParseError"
    /\ Cardinality(Keys(ready_code)) = 2
    /\ current_ptr = 2

\* The length of the longest prefix of the first min(ptr, len) candidates
\* whose hashes are all live keys.
LongestCachedPrefix(cache, ptr, new_code) ==
    LET lens == { n \in 0..Min(ptr, Len(new_code)) :
                    \A i \in 1..n : hash_token_vector(new_code[i]) \in Keys(cache) }
    IN  CHOOSE n \in lens : \A m \in lens : m <= n

\* C2: with current_ptr > 0 and a non-empty candidate list, should_rebuild
\* returns true exactly when matches / current_ptr < 0.5, matches being the
\* length of the longest all-cached prefix of the checked candidates.
C2_RebuildIffPrefixRatioBelowHalf ==
    (result.op = "should_rebuild" /\ current_ptr > 0 /\ Len(result.new_code) > 0)
        => (result.ret <=>
              2 * LongestCachedPrefix(ready_code, current_ptr, result.new_code)
                < current_ptr)

\* The first candidate misses and the second is cached: nothing is counted.
C2_Witness ==
    /\ result.op = "should_rebuild"
    /\ current_ptr = 2
    /\ Len(result.new_code) = 2
    /\ hash_token_vector(result.new_code[1]) \notin Keys(ready_code)
    /\ hash_token_vector(result.new_code[2]) \in Keys(ready_code)
    /\ result.ret = TRUE

\* C3: should_rebuild returns true whenever current_ptr = 0 and whenever the
\* candidate list is empty.
C3_RebuildWhenUntouchedOrEmpty ==
    (result.op = "should_rebuild" /\ (current_ptr = 0 \/ Len(result.new_code) = 0))
        => result.ret = TRUE

\* A non-empty candidate list was judged by a session whose pointer is 0.
C3_Witness ==
    /\ result.op = "should_rebuild"
    /\ current_ptr = 0
    /\ Len(result.new_code) = 2
    /\ result.ret = TRUE

\* C4: after invalidate_from(k) no live entry, and no unit of any tree
\* get_tree can return, has a stored line >= k, and every entry whose stored
\* line was < k is still there, unchanged.
C4_InvalidateRemovesFromKeepsBelow ==
    [][result'.op = "invalidate_from" =>
        LET k == result'.position IN
        /\ \A h \in Keys(ready_code') : ready_code'[h].vect_line < k
        /\ \A t \in get_tree_values(ready_code') :
              \A i \in 1..Len(t.tree) : t.tree[i].vect_line < k
        /\ \A h \in Keys(ready_code) :
              ready_code[h].vect_line < k
                  => h \in Keys(ready_code') /\ ready_code'[h] = ready_code[h]]_vars

\* invalidate_from(k) lowered the pointer to k and the entry of line k - 1
\* was kept.
C4_Witness ==
    /\ result.op = "invalidate_from"
    /\ result.position = 2
    /\ current_ptr = 2
    /\ \E h \in Keys(ready_code) : ready_code[h].vect_line = 1

\* C5: invalidate_from(position) sets current_ptr to the smaller of its old
\* value and position, and leaves total_lines alone.
C5_InvalidateSetsPtrToMin ==
    [][result'.op = "invalidate_from" =>
        /\ current_ptr' = Min(current_ptr, result'.position)
        /\ total_lines' = total_lines]_vars

\* invalidate_from was called with a position beyond a pointer that had
\* advanced: the pointer stayed.
C5_Witness ==
    /\ result.op = "invalidate_from"
    /\ current_ptr = 1
    /\ result.position = 3
    /\ total_lines = 2

C7_SuccessStoresUnitUnderHash ==
    [][ProcessedOk =>
        LET h == hash_token_vector(result'.tokens) IN
        /\ h \in Keys(ready_code')
        /\ ready_code'[h].vect_tokens = result'.tokens
        /\ ready_code'[h].vect_line = result'.line
        /\ ready_code'[h].parsed_value # None
        /\ Keys(ready_code') \ {h} = Keys(ready_code) \ {h}
        /\ \A k \in Keys(ready_code) \ {h} : ready_code'[k] = ready_code[k]]_vars

\* A unit was stored next to two others.
C7_Witness ==
    /\ result.op = "process_vector"
    /\ result.ret.tag = "Ok"
    /\ Cardinality(Keys(ready_code)) = 3
    /\ ready_code[hash_token_vector(result.tokens)].vect_line = result.line

\* C8: reset leaves current_ptr = 0, an empty cache and an empty tree, and
\* keeps total_lines, so get_progress is (0, total_lines).
C8_ResetClearsKeepsTotal ==
    [][result'.op = "reset" =>
        /\ current_ptr' = 0
        /\ Keys(ready_code') = {}
        /\ \A t \in get_tree_values(ready_code') : t.tree = <<>>
        /\ total_lines' = total_lines
        /\ get_progress' = <<0, total_lines>>]_vars

\* reset was called on a session that expects lines.
C8_Witness ==
    /\ result.op = "reset"
    /\ total_lines = MaxLine + 1
    /\ get_progress = <<0, MaxLine + 1>>

\* C9: the tree returned by get_tree holds every live cache entry exactly
\* once and nothing else, in ascending order of stored line.
C9_TreeIsEveryEntryOnceInLineOrder ==
    result.op = "get_tree" =>
        LET t == result.ret.tree IN
        /\ \A h \in Keys(ready_code) :
              Cardinality({ i \in 1..Len(t) : t[i] = ready_code[h] }) = 1
        /\ \A i \in 1..Len(t) : \E h \in Keys(ready_code) : t[i] = ready_code[h]
        /\ \A i, j \in 1..Len(t) : i < j => t[i].vect_line <= t[j].vect_line

\* C10: the tree returned by get_tree holds at most one unit per stored line.
C10_TreeHasOneUnitPerLine ==
    result.op = "get_tree" =>
        \A i, j \in 1..Len(result.ret.tree) :
            result.ret.tree[i].vect_line = result.ret.tree[j].vect_line => i = j

\* C11: get_tree changes neither the cache nor current_ptr nor total_lines,
\* and a tree already handed out keeps its units under every later
\* process_vector, invalidate_from and reset.
C11_TreeReadsOnlyAndStaysDetached ==
    [][/\ result'.op = "get_tree" =>
             /\ Keys(ready_code') = Keys(ready_code)
             /\ \A k \in Keys(ready_code) : ready_code'[k] = ready_code[k]
             /\ current_ptr' = current_ptr
             /\ total_lines' = total_lines
       /\ result'.op \in {"process_vector", "invalidate_from", "reset"} =>
             snapshot' = snapshot]_vars

\* A tree with a unit is still held after a reset emptied the cache.
C11_Witness ==
    /\ result.op = "reset"
    /\ snapshot # None
    /\ Len(snapshot[1].tree) > 0
    /\ Keys(ready_code) = {}

\* C12: once a fresh session told to expect n >= 1 lines has processed lines
\* 0..n-1 in ascending order with pairwise different token vectors,
\* current_ptr is n, is_complete holds and every tree get_tree returns has
\* exactly n units, of lines 0..n-1 in that order, each with a parsed value.
C12_FirstPassCompletes ==
    (total_lines >= 1 /\ current_ptr = total_lines) =>
        /\ is_complete
        /\ \A t \in get_tree_values(ready_code) :
              /\ Len(t.tree) = total_lines
              /\ \A i \in 1..Len(t.tree) :
                    /\ t.tree[i].vect_line = i - 1
                    /\ t.tree[i].parsed_value # None
        /\ result.op = "get_tree" => result.ret \in get_tree_values(ready_code)

\* Three lines were processed and the tree of the three units was returned.
C12_Witness ==
    /\ total_lines = 3
    /\ current_ptr = 3
    /\ result.op = "get_tree"
    /\ Len(result.ret.tree) = 3
    /\ is_complete

\* The numbers of opening and closing parentheses among the first i tokens.
Opens(t, i) == Cardinality({ j \in 1..i : t[j].token_type = "LeftParen" })
Closes(t, i) == Cardinality({ j \in 1..i : t[j].token_type = "RightParen" })

\* The positions of the closing parentheses that close nothing.
StrayCloses(t) == { i \in 1..Len(t) : Closes(t, i) > Opens(t, i) }

Balanced(t) == StrayCloses(t) = {} /\ Opens(t, Len(t)) = Closes(t, Len(t))

\* Every opening parenthesis but a last one is followed by a symbol or by
\* another opening parenthesis.
ShapeHolds(t) ==
    \A i \in 1..(Len(t) - 1) :
        t[i].token_type = "LeftParen" => t[i + 1].token_type \in {"Symbol", "LeftParen"}

Validated == result.op = "is_vect_ready"

\* C13: the first closing parenthesis met while nothing is open makes the
\* validator fail with UnexpectedClosingParen carrying that token's line and
\* column; when there is none and more parentheses are opened than closed it
\* fails with UnclosedParenthesis.
C13_BalanceErrors ==
    Validated =>
        IF StrayCloses(v_tokens) # {}
        THEN LET first == CHOOSE i \in StrayCloses(v_tokens) :
                              \A j \in StrayCloses(v_tokens) : i <= j
             IN  /\ result.ret.tag = "Err"
                 /\ result.ret.error = "UnexpectedClosingParen"
                 /\ result.ret.line = v_tokens[first].line
                 /\ result.ret.column = v_tokens[first].column
        ELSE Opens(v_tokens, Len(v_tokens)) > Closes(v_tokens, Len(v_tokens))
                => result.ret = Err("UnclosedParenthesis")

\* A pair of parentheses is followed by a stray ")" at column 2, and a later
\* ")" is not the one reported.
C13_Witness ==
    /\ Validated
    /\ Len(v_tokens) = 4
    /\ v_tokens[4].token_type = "RightParen"
    /\ result.ret.tag = "Err"
    /\ result.ret.error = "UnexpectedClosingParen"
    /\ result.ret.column = 2

\* C14: for a vector with balanced parentheses, the empty one included, the
\* validator returns a result, which is success exactly when the shape rule
\* holds and ExpectedSymbolAfterOpenParen otherwise.
C14_BalancedValidIffShape ==
    (Validated /\ Balanced(v_tokens)) =>
        /\ result.ret.tag \in {"Ok", "Err"}
        /\ (result.ret = Ok) <=> ShapeHolds(v_tokens)
        /\ ~ ShapeHolds(v_tokens) => result.ret = Err("ExpectedSymbolAfterOpenParen")

\* C15: a vector that breaks both the balance rule and the shape rule fails
\* with a balance error, never with ExpectedSymbolAfterOpenParen.
C15_BalanceBeforeShape ==
    (Validated /\ ~ Balanced(v_tokens) /\ ~ ShapeHolds(v_tokens)) =>
        /\ result.ret.tag = "Err"
        /\ result.ret.error \in {"UnexpectedClosingParen", "UnclosedParenthesis"}

\* "( 1" breaks both rules and is reported as unclosed.
C15_Witness ==
    /\ Validated
    /\ Len(v_tokens) = 2
    /\ v_tokens[1].token_type = "LeftParen"
    /\ v_tokens[2].token_type = "Number"
    /\ result.ret = Err("UnclosedParenthesis")

\* C16: the cache key is the hash of the tokens alone, whatever the line
\* argument and the session: every entry sits under the hash of its own
\* tokens, and after process_vector accepted a vector the cache holds exactly
\* one entry with these tokens, whose stored line is the line just given.
C16_OneEntryPerTokenVector ==
    [][ProcessedOk =>
        LET same == { k \in Keys(ready_code') :
                        ready_code'[k].vect_tokens = result'.tokens }
        IN  /\ same = { hash_token_vector(result'.tokens) }
            /\ \A k \in same : ready_code'[k].vect_line = result'.line
            /\ \A k \in Keys(ready_code') :
                  k = hash_token_vector(ready_code'[k].vect_tokens)]_vars

\* The vector just processed under one line stands in a tree handed out
\* earlier under another line.
C16_Witness ==
    /\ result.op = "process_vector"
    /\ result.ret.tag = "Ok"
    /\ snapshot # None
    /\ \E i \in 1..Len(snapshot[1].tree) :
          /\ snapshot[1].tree[i].vect_tokens = result.tokens
          /\ snapshot[1].tree[i].vect_line # result.line
    /\ Cardinality({ k \in Keys(ready_code) :
                       ready_code[k].vect_tokens = result.tokens }) = 1

\* The number of candidates the last should_rebuild call counted as matches.
CountedMatches ==
    scan_matches(ready_code, result.new_code, 0,
                 Min(current_ptr, Len(result.new_code)), 0)

Judged == result.op = "should_rebuild" /\ current_ptr > 0 /\ Len(result.new_code) > 0

\* C17 as stated: should_rebuild counts the candidate of index i as a match
\* only if the cache holds a unit with the candidate's tokens and with stored
\* line i.
C17_MatchHasTokensAndLine ==
    Judged =>
        \A i \in 1..CountedMatches :
            \E k \in Keys(ready_code) :
                /\ ready_code[k].vect_tokens = result.new_code[i]
                /\ ready_code[k].vect_line = i - 1

\* C17 as amended: should_rebuild counts the candidate of index i as a match
\* only if the cache holds a unit with the candidate's tokens, whatever the
\* line stored with it.
C17_MatchHasTokens ==
    Judged =>
        \A i \in 1..CountedMatches :
            \E k \in Keys(ready_code) :
                ready_code[k].vect_tokens = result.new_code[i]

\* The first candidate was counted on a unit stored for another line, and
\* the answer was that no rebuild is needed.
C17_Witness ==
    /\ Judged
    /\ CountedMatches >= 1
    /\ result.ret = FALSE
    /\ \A k \in Keys(ready_code) :
          ready_code[k].vect_tokens = result.new_code[1] => ready_code[k].vect_line # 0

\* ------------------------------------------------------------------------
\* The lexer.

\* The token pushed by the step being taken.
Pushed == token_vector'[Len(token_vector')]

\* The lexer has returned its vector.
Tokenized == result.op = "tokenize_all"

\* C18: for every input string, the empty one included, the vector returned
\* by tokenize_all holds exactly one EOF token and that token is its last
\* element.
C18_OneEofLast ==
    Tokenized =>
        /\ Len(result.ret) >= 1
        /\ \A i \in 1..Len(result.ret) :
              (result.ret[i].token = T_EOF) <=> (i = Len(result.ret))

\* The empty input was tokenized and the vector is the EOF token alone.
C18_Witness ==
    /\ Tokenized
    /\ source = <<>>
    /\ Len(result.ret) = 1
    /\ result.ret[1].token = T_EOF

\* C19 as stated: the line and column recorded on every token the lexer
\* emits, whatever its kind, are the cursor's position before the first
\* character of the token's lexeme was consumed, that is the position the
\* cursor has once the blanks and comments in front of the lexeme are skipped.
C19_PositionBeforeLexeme ==
    [][ (token_vector' # token_vector /\ Pushed.token # T_EOF)
            => <<Pushed.line, Pushed.column>> = get_position(trim(lexer)) ]_vars

\* The body of a string literal read from the characters that follow its
\* opening quote: the characters up to the first unescaped double quote with
\* the escape sequences translated, and the input left after that quote
\* (nothing when the literal is not terminated).
RECURSIVE LiteralBody(_, _)
LiteralBody(s, body) ==
    IF s = <<>> THEN [text |-> body, rest |-> <<>>]
    ELSE IF Head(s) = "\"" THEN [text |-> body, rest |-> Tail(s)]
    ELSE IF Head(s) = "\\"
         THEN IF Len(s) = 1 THEN [text |-> body, rest |-> <<>>]
              ELSE LiteralBody(Tail(Tail(s)), Append(body, control_flow(s[2])))
    ELSE LiteralBody(Tail(s), Append(body, Head(s)))

\* C20 as stated: when the lexer meets an opening double quote, the token it
\* emits is the string token whose content is exactly the characters between
\* that quote and the first following unescaped double quote, escapes
\* translated and no character dropped, and the cursor stops right after the
\* closing quote, or at the end of the input when the literal is not
\* terminated.
C20_StringLiteralContent ==
    [][ LET t == trim(lexer).input IN
        (token_vector' # token_vector /\ t # <<>> /\ Head(t) = "\"")
            => LET b == LiteralBody(Tail(t), <<>>) IN
               /\ Pushed.token = T_String(b.text)
               /\ lexer'.input = b.rest ]_vars

\* What the cursor sees once the blanks and comments in front of it are
\* skipped: the start of the next token.
TokenStart == trim(lexer).input

\* The next token starts with a character the lexer does not know.
AtUnknownCharacter == TokenStart # <<>> /\ ~ is_valid_character(Head(TokenStart))

\* C21: a character outside the recognized set, met at a token start, gives
\* exactly one error token and consumes exactly that character; the lexer
\* does not return there but goes on with the character that follows.
C21_UnknownCharacterIsOneErrorToken ==
    [][ (token_vector' # token_vector /\ AtUnknownCharacter)
            => /\ Len(token_vector') = Len(token_vector) + 1
               /\ Pushed.token.kind = "Error"
               /\ lexer'.input = Tail(TokenStart)
               /\ ~ Tokenized' ]_vars

\* An unknown character gave one error token, a token other than EOF came
\* after it and the vector ends with EOF.
C21_Witness ==
    /\ Tokenized
    /\ \E i \in 1..Len(result.ret) :
          /\ result.ret[i].token.kind = "Error"
          /\ i + 1 < Len(result.ret)
          /\ result.ret[i + 1].token.kind # "Error"
    /\ result.ret[Len(result.ret)].token = T_EOF

\* The characters the cursor has passed.
Consumed == SubSeq(source, 1, Len(source) - Len(lexer.input))

\* The places of the newlines of a string.
NewlinesOf(s) == { i \in 1..Len(s) : s[i] = "\n" }

\* The number of characters of a string that follow its last newline.
SinceNewline(s) ==
    IF NewlinesOf(s) = {} THEN Len(s)
    ELSE Len(s) - (CHOOSE i \in NewlinesOf(s) : \A j \in NewlinesOf(s) : j <= i)

\* C24 as stated: in every lexer state the column counter is the number of
\* characters consumed since the last consumed newline and the line counter
\* is its initial value plus the number of newlines consumed.
C24_CountersMatchConsumed ==
    /\ lexer.column = SinceNewline(Consumed)
    /\ lexer.line = 1 + Cardinality(NewlinesOf(Consumed))

\* s is what is left of t after some of its first characters are removed.
IsSuffix(s, t) ==
    /\ Len(s) <= Len(t)
    /\ s = SubSeq(t, Len(t) - Len(s) + 1, Len(t))

\* C25: tokenizing terminates: each call of next_token consumes at least one
\* character or returns EOF, the cursor only moves forward, tokenize_all
\* returns on EOF, and no more tokens are emitted than the input has
\* characters plus one.
C25_TokenizingTerminates ==
    [][ token_vector' # token_vector
          => /\ IsSuffix(lexer'.input, lexer.input)
             /\ Pushed.token = T_EOF \/ Len(lexer'.input) < Len(lexer.input)
             /\ Pushed.token = T_EOF => Tokenized'
             /\ Len(token_vector') <= Len(source) + 1 ]_vars

\* An input of several characters was tokenized into as many tokens as it
\* has characters, plus EOF.
C25_Witness ==
    /\ Tokenized
    /\ Len(source) >= 2
    /\ Len(result.ret) = Len(source) + 1

\* ------------------------------------------------------------------------
\* The frontier.

\* Every live entry has a stored line below the pointer.
AllBelowFrontier ==
    \A h \in Keys(ready_code) : ready_code[h].vect_line < current_ptr

TreeBuilt == frame # None /\ frame[1].next > Len(frame[1].line_numbers)

\* The set of the units of a tree.
TreeUnits(t) == { t.tree[i] : i \in 1..Len(t.tree) }

\* C22 as stated: with eviction free to fire at any point, between the cache
\* scans of get_tree too, the set of units of the tree returned is the set of
\* live cache entries at some single instant of the call.
C22_TreeIsLiveSetAtAnInstant ==
    TreeBuilt => TreeUnits(frame[1].tree) \in frame[1].instants

\* ------------------------------------------------------------------------
\* An edit.

\* The step that returns the updated tree: the lines from changed[1] on were
\* submitted again, the last of them with success.
ReturnsUpdatedTree ==
    /\ changed # None
    /\ result.op = "process_vector"
    /\ result'.op = "get_tree"

\* The frontier is total_lines, the session is complete, the updated tree
\* has one unit for each line in line order, the lines below the changed one
\* with the units of the first tree.
Continued ==
    /\ current_ptr = total_lines
    /\ is_complete
    /\ Len(result.ret.tree) = total_lines
    /\ \A i \in 1..Len(result.ret.tree) :
          /\ result.ret.tree[i].vect_line = i - 1
          /\ i - 1 < changed[1] =>
                /\ i <= Len(snapshot[1].tree)
                /\ result.ret.tree[i] = snapshot[1].tree[i]
          /\ i - 1 >= changed[1] => result.ret.tree[i] \in Units(ready_code)

\* C23 as stated: after lines 0..n-1 were processed in order with
\* total_lines = n, invalidate_from(k) with k < n followed by the successful
\* processing of lines k..n-1 in order, with token sequences different from
\* each other and from those of the kept lines, gives frontier n, a complete
\* session and a tree with exactly one unit for each line 0..n-1, the lines
\* below k with their original units and the others with the new ones.
C23_ContinuationRebuildsTree ==
    [][ ReturnsUpdatedTree => Continued' ]_vars

\* C23 as amended: the same, for a first pass whose n lines have pairwise
\* different token sequences (its tree has n units).
C23_ContinuationAfterDistinctLines ==
    [][ (ReturnsUpdatedTree /\ Len(snapshot[1].tree) = total_lines) => Continued' ]_vars

\* Three lines were processed, the last two were processed again after
\* invalidate_from(1) and the updated tree has another unit for line 1 than
\* the first tree.
C23_Witness ==
    /\ changed = Some(1)
    /\ result.op = "get_tree"
    /\ total_lines = 3
    /\ Len(snapshot[1].tree) = 3
    /\ Len(result.ret.tree) = 3
    /\ result.ret.tree[1] = snapshot[1].tree[1]
    /\ result.ret.tree[2] # snapshot[1].tree[2]

\* ------------------------------------------------------------------------
\* The same program again.

\* should_rebuild was asked about the lines of the program that was
\* processed, line after line, each with success.
AskedAboutSameProgram ==
    /\ result.op = "should_rebuild"
    /\ result.new_code = lisp_code
    /\ current_ptr = Len(lisp_code)

\* The cache holds the unit of line d of the program.
UnitOfLineIsLive(d) ==
    \E h \in Keys(ready_code) : ready_code[h].vect_tokens = lisp_code[d + 1]

\* C28: when the lines 0..n-1 of a program were processed in ascending order
\* and nothing was invalidated, reset or evicted since, should_rebuild with
\* those n token sequences returns false; when an eviction has removed the
\* unit of a line d < n/2, it returns true.
C28_SameProgramNeedsNoRebuild ==
    AskedAboutSameProgram =>
        LET n == Len(lisp_code) IN
        /\ (\A d \in 0..(n - 1) : UnitOfLineIsLive(d)) => result.ret = FALSE
        /\ (\E d \in 0..(n - 1) : 2 * d < n /\ ~ UnitOfLineIsLive(d)) => result.ret = TRUE

\* The unit of line 1 of a program of three lines was evicted, the two other
\* units are live, and should_rebuild answered true.
C28_Witness ==
    /\ AskedAboutSameProgram
    /\ Len(lisp_code) = 3
    /\ UnitOfLineIsLive(0)
    /\ ~ UnitOfLineIsLive(1)
    /\ UnitOfLineIsLive(2)
    /\ result.ret = TRUE

====
